---- MODULE Spec2Model ----
(***************************************************************************)
(* Schema synthesis of ts-rs-bincode: the Schema builder of                *)
(* macros/src/schem.rs (add_generic, add_parent_generics, add_field,       *)
(* add_variant, process_type, replace_types, to_string) and the schema     *)
(* routine generated by DerivedTS::generate_schem_fn of macros/src/lib.rs. *)
(* Rust strings are TLA+ strings; a character is a string of length 1.     *)
(***************************************************************************)
EXTENDS Integers, Sequences, FiniteSets, TLC

VARIABLES name, stype, generics, parent_generics, fields, variants, def,
          pc, order, doc, call, schem

vars == <<name, stype, generics, parent_generics, fields, variants, def,
          pc, order, doc, call, schem>>

schemaVars == <<name, stype, generics, parent_generics, fields, variants, def>>

-----------------------------------------------------------------------------
(* Bounds of the model.                                                    *)

MaxFields == 2
MaxVariants == 2

-----------------------------------------------------------------------------
(* Strings.                                                                *)

Ch(s, i) == SubSeq(s, i, i)

Lower == <<"a","b","c","d","e","f","g","h","i","j","k","l","m",
           "n","o","p","q","r","s","t","u","v","w","x","y","z">>
Upper == <<"A","B","C","D","E","F","G","H","I","J","K","L","M",
           "N","O","P","Q","R","S","T","U","V","W","X","Y","Z">>
Digits == {"0","1","2","3","4","5","6","7","8","9"}

Range(f) == {f[i] : i \in DOMAIN f}

\* char::is_alphanumeric
is_alphanumeric(c) == c \in Range(Lower) \cup Range(Upper) \cup Digits

IndexIn(c, alphabet) == CHOOSE i \in DOMAIN alphabet : alphabet[i] = c

UpperChar(c) == IF c \in Range(Lower) THEN Upper[IndexIn(c, Lower)] ELSE c
LowerChar(c) == IF c \in Range(Upper) THEN Lower[IndexIn(c, Upper)] ELSE c

RECURSIVE to_uppercase(_)
to_uppercase(s) ==
    IF s = "" THEN "" ELSE UpperChar(Ch(s, 1)) \o to_uppercase(Tail(s))

RECURSIVE to_lowercase(_)
to_lowercase(s) ==
    IF s = "" THEN "" ELSE LowerChar(Ch(s, 1)) \o to_lowercase(Tail(s))

\* the positions (1-based) at which pat occurs in s
Matches(s, pat) ==
    {i \in 1..(Len(s) - Len(pat) + 1) :
        Ch(s, i) = Ch(pat, 1) /\ SubSeq(s, i, i + Len(pat) - 1) = pat}

Min(S) == CHOOSE x \in S : \A y \in S : x <= y
Max(S) == CHOOSE x \in S : \A y \in S : y <= x

\* str::find from position `from` (1-based); 0 when there is no match.
IndexOf(s, pat, from) ==
    LET hits == {i \in Matches(s, pat) : i >= from}
    IN  IF hits = {} THEN 0 ELSE Min(hits)

find(s, pat) == IndexOf(s, pat, 1)

contains(s, pat) == find(s, pat) # 0

\* str::replace: every non-overlapping match, left to right.
RECURSIVE replace(_, _, _)
replace(s, pat, rep) ==
    LET k == find(s, pat)
    IN  IF k = 0 THEN s
        ELSE SubSeq(s, 1, k - 1) \o rep
             \o replace(SubSeq(s, k + Len(pat), Len(s)), pat, rep)

\* str::replace(|c| !c.is_alphanumeric(), "_")
RECURSIVE replace_non_alnum(_)
replace_non_alnum(s) ==
    IF s = "" THEN ""
    ELSE (IF is_alphanumeric(Ch(s, 1)) THEN Ch(s, 1) ELSE "_")
         \o replace_non_alnum(Tail(s))

RECURSIVE trim_end_matches(_, _)
trim_end_matches(s, c) ==
    IF s # "" /\ Ch(s, Len(s)) = c
    THEN trim_end_matches(SubSeq(s, 1, Len(s) - 1), c) ELSE s

RECURSIVE trim_start_matches(_, _)
trim_start_matches(s, c) ==
    IF s # "" /\ Ch(s, 1) = c THEN trim_start_matches(Tail(s), c) ELSE s

RECURSIVE join(_, _)
join(strs, sep) ==
    IF strs = <<>> THEN ""
    ELSE IF Len(strs) = 1 THEN strs[1]
    ELSE strs[1] \o sep \o join(Tail(strs), sep)

-----------------------------------------------------------------------------
(* Type expressions (syn::Type).  A path type carries its segments and the *)
(* angle-bracketed type arguments of its last segment (<<>>: none).        *)

TPath(segs, args) == [kind |-> "Path", segs |-> segs, args |-> args]
TTuple(elems) == [kind |-> "Tuple", segs |-> <<>>, args |-> elems]
TArray(elem, len) == [kind |-> "Array", segs |-> <<len>>, args |-> <<elem>>]
TSlice(elem) == [kind |-> "Slice", segs |-> <<>>, args |-> <<elem>>]
TReference(elem) == [kind |-> "Reference", segs |-> <<>>, args |-> <<elem>>]
Ident(n) == TPath(<<n>>, <<>>)

Last(seq) == seq[Len(seq)]

\* ToTokens::to_token_stream().to_string(): the tokens, separated by spaces.
RECURSIVE to_token_string(_)
to_token_string(ty) ==
    LET inner == [i \in 1..Len(ty.args) |-> to_token_string(ty.args[i])]
    IN  CASE ty.kind = "Path" ->
               join(ty.segs, " :: ")
               \o (IF ty.args = <<>> THEN "" ELSE " < " \o join(inner, " , ") \o " >")
          [] ty.kind = "Tuple" -> "(" \o join(inner, " , ") \o ")"
          [] ty.kind = "Array" -> "[" \o inner[1] \o " ; " \o ty.segs[1] \o "]"
          [] ty.kind = "Slice" -> "[" \o inner[1] \o "]"
          [] ty.kind = "Reference" -> "& " \o inner[1]

\* the type as written, without its spaces
qualified_text(ty) == replace(to_token_string(ty), " ", "")

\* remove_create_type_path::simplify_type
RECURSIVE simplify_type(_)
simplify_type(ty) ==
    IF ty.kind = "Path"
    THEN Last(ty.segs)
         \o (IF ty.args = <<>> THEN ""
             ELSE "<" \o join([i \in 1..Len(ty.args) |-> simplify_type(ty.args[i])], ", ")
                  \o ">")
    ELSE to_token_string(ty)

remove_create_type_path(type_path) == simplify_type(type_path)

Primitives ==
    {"usize", "isize", "i8", "i16", "i32", "i64", "u8", "u16", "u32", "u64",
     "f32", "f64", "bool", "char", "String", "Uuid", "NaiveDateTime"}

is_primitive_type(type_string) == type_string \in Primitives

Containers == {"Option", "Vec", "Result", "HashMap"}

-----------------------------------------------------------------------------
(* The definition table: HashMap<String, String>, clean key -> full type.  *)

EmptyMap == [k \in {} |-> ""]

\* a table that keeps a second entry for a key it already holds
insert_again(d, k, v) ==
    [x \in DOMAIN d \cup {IF k \in DOMAIN d THEN k \o "'" ELSE k} |->
        IF x \in DOMAIN d THEN d[x] ELSE v]

\* a table that drops what it is given
insert_nothing(d, k, v) == d

insert(d, k, v) == [x \in DOMAIN d \cup {k} |-> IF x = k THEN v ELSE d[x]]

RECURSIVE process_type(_, _, _, _)
RECURSIVE process_args(_, _, _, _, _)

\* the loops `for arg in &args.args` and `for elem in &type_tuple.elems`
process_args(d, gens, pgens, args, i) ==
    IF i > Len(args) THEN d
    ELSE process_args(process_type(d, gens, pgens, args[i]), gens, pgens, args, i + 1)

\* Schema::process_type: the definition table after registering `ty`.
process_type(d, gens, pgens, ty) ==
    LET type_string == to_token_string(ty)
    IN  IF \/ is_primitive_type(type_string)
           \/ type_string \in Range(gens)
           \/ type_string \in Range(pgens)
        THEN d
        ELSE IF ty.kind = "Path"
        THEN IF Len(ty.segs) > 1 /\ ty.segs[1] \in Range(gens)
             THEN d
             ELSE IF Last(ty.segs) \in Containers
             THEN process_args(d, gens, pgens, ty.args, 1)
             ELSE process_args(
                      insert(d,
                             replace(remove_create_type_path(ty), " ", ""),
                             replace(type_string, " ", "")),
                      gens, pgens, ty.args, 1)
        ELSE IF ty.kind = "Tuple"
        THEN process_args(d, gens, pgens, ty.args, 1)
        ELSE d

\* SchemaFieldRef of a field type (add_field, add_variant_field)
sref_of(ty) ==
    CASE ty.kind = "Array" -> [tag |-> "ItemsRefs", s |-> to_token_string(ty.args[1])]
      [] ty.kind = "Path" -> [tag |-> "Refs", s |-> remove_create_type_path(ty)]
      [] OTHER -> [tag |-> "Type", s |-> to_token_string(ty)]

-----------------------------------------------------------------------------
(* Reference rewriting.                                                    *)

\* A Rust panic (index out of range, unwrap of None, ...) aborts the call.
Panic == "!panic!"

IsIdentChar(c) == is_alphanumeric(c) \/ c = "_"

\* the last index of the run of identifier characters that starts at i
RECURSIVE IdentEnd(_, _)
IdentEnd(s, i) ==
    IF i < Len(s) /\ IsIdentChar(Ch(s, i + 1)) THEN IdentEnd(s, i + 1) ELSE i

\* replace_types, lines 512-523: the index of the '>' that closes the '<'
\* before position i, or Len(s) when the characters run out first.
RECURSIVE InnerEnd(_, _, _)
InnerEnd(s, i, bracket_count) ==
    IF i > Len(s) THEN Len(s)
    ELSE IF Ch(s, i) = "<" THEN InnerEnd(s, i + 1, bracket_count + 1)
    ELSE IF Ch(s, i) = ">"
         THEN IF bracket_count = 1 THEN i ELSE InnerEnd(s, i + 1, bracket_count - 1)
    ELSE InnerEnd(s, i + 1, bracket_count)

RECURSIVE replace_types(_, _, _, _)
RECURSIVE replace_chars(_, _, _, _, _)

\* the `while let Some(c) = chars.next()` loop of replace_types, from index i
replace_chars(s, i, defs, gens, pgens) ==
    IF i > Len(s) THEN ""
    ELSE LET c == Ch(s, i)
         IN  IF c = "<"
             THEN LET e == InnerEnd(s, i + 1, 1)
                      inner_type == SubSeq(s, i + 1, e)
                  IN  IF inner_type = "" THEN Panic
                      ELSE LET replaced_inner ==
                                   replace_types(SubSeq(inner_type, 1, Len(inner_type) - 1),
                                                 defs, gens, pgens)
                               rest == replace_chars(s, e + 1, defs, gens, pgens)
                           IN  IF replaced_inner = Panic \/ rest = Panic THEN Panic
                               ELSE "<" \o replaced_inner \o ">" \o rest
             ELSE IF IsIdentChar(c)
             THEN LET e == IdentEnd(s, i)
                      type_name == SubSeq(s, i, e)
                      rest == replace_chars(s, e + 1, defs, gens, pgens)
                  IN  IF rest = Panic THEN Panic
                      ELSE (IF type_name \in defs /\ type_name \notin Range(gens)
                            THEN "#/definitions/" \o type_name
                            ELSE type_name) \o rest
             ELSE LET rest == replace_chars(s, i + 1, defs, gens, pgens)
                  IN  IF rest = Panic THEN Panic ELSE c \o rest

\* str::split("::").len(): one more than the number of separators
RECURSIVE CountMatches(_, _)
CountMatches(s, pat) ==
    LET k == find(s, pat)
    IN  IF k = 0 THEN 0
        ELSE 1 + CountMatches(SubSeq(s, k + Len(pat), Len(s)), pat)

replace_types(sref0, defs, gens, pgens) ==
    LET sref == replace(sref0, " ", "")
    IN  IF sref = "" THEN ""
        ELSE IF sref \in defs /\ sref \notin Range(gens) /\ sref \notin Range(pgens)
        THEN "#/definitions/" \o sref
        ELSE IF /\ contains(sref, "::")
                /\ CountMatches(sref, "::") = 1
                /\ SubSeq(sref, 1, find(sref, "::") - 1) \in Range(gens) \cup Range(pgens)
        THEN sref
        ELSE replace_chars(sref, 1, defs, gens, pgens)

\* extract_type_names: the identifiers of sref, in order
RECURSIVE extract_type_names(_)
extract_type_names(sref) ==
    IF sref = "" THEN <<>>
    ELSE IF IsIdentChar(Ch(sref, 1))
    THEN LET e == IdentEnd(sref, 1)
         IN  <<SubSeq(sref, 1, e)>> \o extract_type_names(SubSeq(sref, e + 1, Len(sref)))
    ELSE extract_type_names(Tail(sref))

-----------------------------------------------------------------------------
(* Schema::to_string.  A schema is the record of the Schema fields; `ord`  *)
(* is the order in which the HashMap `def` yields its keys.                *)

\* the sanitized upper-case identifier of a definition key (lines 388-399)
def_name_of(key) ==
    to_uppercase(
        trim_start_matches(
            trim_end_matches(
                replace(replace(replace(replace_non_alnum(key), " ", ""), "__", "_"),
                        "__", "_"),
                "_"),
            "_"))

def_key_of(key) == replace(replace(key, "\n", ""), " ", "")

\* concatenation that lets a panic abort the whole rendering
Cat(a, b) == IF a = Panic \/ b = Panic THEN Panic ELSE a \o b

final_type_of(s, field) ==
    LET r == replace_types(field.sref.s, DOMAIN s.def, s.generics, s.parent_generics)
    IN  IF r = Panic THEN Panic ELSE replace(r, " ", "")

\* a header that prints the name before the type
name_first_header(s) ==
    "{\n  \"name\": \"" \o s.name
    \o "\",\n  \"type\": \"" \o (IF s.stype = "Enum" THEN "enum" ELSE "struct")
    \o "\",\n  \"" \o (IF s.stype = "Enum" THEN "variants" ELSE "fields")
    \o "\": [\n"

header_part(s) ==
    "{\n  \"type\": \"" \o (IF s.stype = "Enum" THEN "enum" ELSE "struct")
    \o "\",\n  \"name\": \"" \o s.name
    \o "\",\n  \"" \o (IF s.stype = "Enum" THEN "variants" ELSE "fields")
    \o "\": [\n"

RECURSIVE fields_part(_, _)
fields_part(s, i) ==
    IF i > Len(s.fields) THEN "  ],\n"
    ELSE Cat(Cat("    {\n      \"name\": \"" \o s.fields[i].name
                  \o "\",\n      \"type\": \"",
                 final_type_of(s, s.fields[i])),
             Cat("\"\n    },\n", fields_part(s, i + 1)))

\* lines 312-329: the fields of one variant, unnamed ones by position
RECURSIVE variant_fields_part(_, _, _)
variant_fields_part(s, vfields, i) ==
    IF i > Len(vfields) THEN "      ],\n"
    ELSE Cat(Cat("        {\n          \"name\": \""
                  \o (IF vfields[i].name = "" THEN ToString(i - 1) ELSE vfields[i].name)
                  \o "\",\n          \"type\": \"",
                 final_type_of(s, vfields[i])),
             Cat("\"\n        },\n", variant_fields_part(s, vfields, i + 1)))

def_entry(key) ==
    "    \"" \o def_key_of(key) \o "\": &&&" \o def_name_of(key) \o "&&&,\n"

\* lines 353-372: an entry for each identifier of sref that is a definition key
RECURSIVE variant_names_defs(_, _, _)
variant_names_defs(s, type_names, i) ==
    IF i > Len(type_names) THEN ""
    ELSE (IF type_names[i] \in DOMAIN s.def /\ type_names[i] \notin Range(s.generics)
          THEN def_entry(type_names[i]) ELSE "")
         \o variant_names_defs(s, type_names, i + 1)

\* lines 333-376: the definitions of one variant, field by field
RECURSIVE variant_defs_part(_, _, _)
variant_defs_part(s, vfields, i) ==
    IF i > Len(vfields) THEN "        },\n        },\n"
    ELSE LET sref == replace(vfields[i].sref.s, " ", "")
         IN  (IF sref \in DOMAIN s.def /\ sref \notin Range(s.generics)
              THEN def_entry(sref)
              ELSE variant_names_defs(s, extract_type_names(sref), 1))
             \o variant_defs_part(s, vfields, i + 1)

\* the position of the variant, whatever discriminant it declares
position_index(variant, variant_index) == variant_index

\* the discriminant printed for variant i, given the running variant_index
effective_index(variant, variant_index) ==
    IF variant.discriminant.some THEN variant.discriminant.val ELSE variant_index

\* the largest value of `variant_index: i32` and of a parsed discriminant
I32Max == 2147483647

\* `variant_index += 1` where the build does not check overflow
wrapping_inc(n) == IF n = I32Max THEN (0 - I32Max) - 1 ELSE n + 1

\* `variant_index += 1` overflows after some variant from i on
RECURSIVE overflows(_, _, _)
overflows(s, i, variant_index) ==
    IF i > Len(s.variants) THEN FALSE
    ELSE LET idx == effective_index(s.variants[i], variant_index)
         IN  idx = I32Max \/ overflows(s, i + 1, wrapping_inc(idx))

RECURSIVE variants_part(_, _, _)
variants_part(s, i, variant_index) ==
    IF i > Len(s.variants) THEN "    ],\n"
    ELSE LET v == s.variants[i]
             idx == effective_index(v, variant_index)
         IN  Cat(Cat("    {\n      \"name\": \"" \o v.name
                      \o "\",\n      \"discriminant\": " \o ToString(idx)
                      \o ",\n      \"type\": \"struct\",\n      \"fields\": [\n",
                     variant_fields_part(s, v.fields, 1)),
                 Cat("  \"definitions\": {\n" \o variant_defs_part(s, v.fields, 1),
                     variants_part(s, i + 1, wrapping_inc(idx))))

RECURSIVE definitions_part(_, _)
definitions_part(ord, i) ==
    IF i > Len(ord) THEN "  },\n"
    ELSE def_entry(ord[i]) \o definitions_part(ord, i + 1)

generic_entry(generic) ==
    "    \"" \o generic \o "\": &&&&" \o generic \o "&&&&,\n"

RECURSIVE generic_entries(_, _)
generic_entries(gens, i) ==
    IF i > Len(gens) THEN ""
    ELSE generic_entry(gens[i]) \o generic_entries(gens, i + 1)

generics_part(s) ==
    "  \"generics\": {\n" \o generic_entries(s.generics, 1)
    \o generic_entries(s.parent_generics, 1) \o "  }\n}"

to_string(s, ord) ==
    Cat(header_part(s),
        Cat(IF s.stype = "Struct"
            THEN Cat(fields_part(s, 1), "  \"definitions\": {\n" \o definitions_part(ord, 1))
            ELSE variants_part(s, 1, 0),
            generics_part(s)))

\* Schema::to_string under either build: with overflow checks the increment
\* after a variant whose index is the largest i32 panics, without them it wraps
renderings(s, ord) ==
    {to_string(s, ord)}
    \cup (IF s.stype = "Enum" /\ overflows(s, 1, 0) THEN {Panic} ELSE {})

\* str::split
RECURSIVE split(_, _)
split(s, sep) ==
    LET k == find(s, sep)
    IN  IF k = 0 THEN <<s>>
        ELSE <<SubSeq(s, 1, k - 1)>> \o split(SubSeq(s, k + Len(sep), Len(s)), sep)

trim_matches(s, c) == trim_start_matches(trim_end_matches(s, c), c)

-----------------------------------------------------------------------------
(* The builder, as functions on schema records.                            *)

new(n, t) ==
    [name |-> n, stype |-> t, generics |-> <<>>, parent_generics |-> <<>>,
     fields |-> <<>>, variants |-> <<>>, def |-> EmptyMap]

push_unique(list, x) == IF x \in Range(list) THEN list ELSE Append(list, x)

RECURSIVE extend_unique(_, _, _)
extend_unique(list, xs, i) ==
    IF i > Len(xs) THEN list
    ELSE extend_unique(push_unique(list, xs[i]), xs, i + 1)

with_generic(s, ident) == [s EXCEPT !.generics = push_unique(@, ident)]

with_parent_generics(s, pgs) == [s EXCEPT !.parent_generics = extend_unique(@, pgs, 1)]

\* a builder that puts the new field first
with_field_first(s, n, ty) ==
    [s EXCEPT !.def = process_type(@, s.generics, s.parent_generics, ty),
              !.fields = <<[name |-> n, sref |-> sref_of(ty)]>> \o @]

with_field(s, n, ty) ==
    [s EXCEPT !.def = process_type(@, s.generics, s.parent_generics, ty),
              !.fields = Append(@, [name |-> n, sref |-> sref_of(ty)])]

\* add_variant, lines 132-146: Some(i32) only for an integer literal
\* an integer literal carries its decimal digits (no sign: a negated literal
\* is a unary expression)
NoDiscriminant == [kind |-> "None", val |-> ""]
LitInt(digits) == [kind |-> "LitInt", val |-> digits]
OtherExpr == [kind |-> "Other", val |-> ""]

DigitSeq == <<"0", "1", "2", "3", "4", "5", "6", "7", "8", "9">>
DigitVal(c) == IndexIn(c, DigitSeq) - 1

\* digits of equal length, compared from the left
RECURSIVE digits_leq(_, _, _)
digits_leq(a, b, i) ==
    IF i > Len(a) THEN TRUE
    ELSE IF DigitVal(Ch(a, i)) < DigitVal(Ch(b, i)) THEN TRUE
    ELSE IF DigitVal(Ch(a, i)) > DigitVal(Ch(b, i)) THEN FALSE
    ELSE digits_leq(a, b, i + 1)

RECURSIVE decimal_value(_)
decimal_value(digits) ==
    IF digits = "" THEN 0
    ELSE decimal_value(SubSeq(digits, 1, Len(digits) - 1)) * 10
         + DigitVal(Ch(digits, Len(digits)))

\* LitInt::base10_parse::<i32>: Err for a literal above the largest i32
base10_parse_i32(digits) ==
    IF \/ Len(digits) < Len(ToString(I32Max))
       \/ Len(digits) = Len(ToString(I32Max)) /\ digits_leq(digits, ToString(I32Max), 1)
    THEN [some |-> TRUE, val |-> decimal_value(digits)]
    ELSE [some |-> FALSE, val |-> 0]

\* line 136: `.unwrap()` of that Err
unwrap_panics(expr) == expr.kind = "LitInt" /\ ~base10_parse_i32(expr.val).some

parse_discriminant(expr) ==
    IF expr.kind = "LitInt" THEN base10_parse_i32(expr.val)
    ELSE [some |-> FALSE, val |-> 0]

RECURSIVE with_variant_fields(_, _, _)
with_variant_fields(s, vfields, i) ==
    IF i > Len(vfields) THEN s
    ELSE with_variant_fields(
             [s EXCEPT !.def = process_type(@, s.generics, s.parent_generics, vfields[i].ty),
                       !.variants[Len(s.variants)].fields =
                           Append(@, [name |-> vfields[i].name,
                                      sref |-> sref_of(vfields[i].ty)])],
             vfields, i + 1)

with_variant(s, n, vfields, discriminant) ==
    with_variant_fields(
        [s EXCEPT !.variants =
            Append(@, [name |-> n, fields |-> <<>>,
                       discriminant |-> parse_discriminant(discriminant)])],
        vfields, 1)

-----------------------------------------------------------------------------
(* The types of the example crate that a schema under derivation can name. *)

\* example/src/lib.rs: pub struct Point<T> { time: u64, value: T }
PointDecl ==
    with_field(with_field(with_generic(new("Point", "Struct"), "T"),
                          "time", Ident("u64")),
               "value", Ident("T"))

\* example/src/lib.rs: enum Gender { Male, Female, Other }
GenderDecl ==
    with_variant(with_variant(with_variant(new("Gender", "Enum"),
                                           "Male", <<>>, NoDiscriminant),
                              "Female", <<>>, NoDiscriminant),
                 "Other", <<>>, NoDiscriminant)

\* example/src/lib.rs: enum Role { User, Admin }
RoleDecl ==
    with_variant(with_variant(new("Role", "Enum"), "User", <<>>, NoDiscriminant),
                 "Admin", <<>>, NoDiscriminant)

Crate == [n \in {"Point", "Gender", "Role"} |->
             CASE n = "Point" -> PointDecl
               [] n = "Gender" -> GenderDecl
               [] n = "Role" -> RoleDecl]

-----------------------------------------------------------------------------
(* The schema routine that generate_schem_fn emits, as run later.          *)

StackOverflow == "!stack overflow!"

\* str::rfind (1-based); 0 when there is no match
rfind(s, pat) == IF Matches(s, pat) = {} THEN 0 ELSE Max(Matches(s, pat))

IsSpace(c) == c \in {" ", "\n", "\t", "\r"}

RECURSIVE trim(_)
trim(s) ==
    IF s # "" /\ IsSpace(Ch(s, 1)) THEN trim(Tail(s))
    ELSE IF s # "" /\ IsSpace(Ch(s, Len(s))) THEN trim(SubSeq(s, 1, Len(s) - 1))
    ELSE s

\* the items of array_content that are left after trimming: lines 105-111
RECURSIVE clean_items(_, _)
clean_items(items, i) ==
    IF i > Len(items) THEN <<>>
    ELSE LET clean_item == trim_matches(trim(items[i]), "\"")
         IN  (IF clean_item # "" THEN <<clean_item>> ELSE <<>>)
             \o clean_items(items, i + 1)

\* Schema::parse_parent_generics_from_schema
parse_parent_generics_from_schema(schema_str) ==
    LET start_idx == find(schema_str, "\"parent_generics\":[")
        array_start == start_idx + Len("\"parent_generics\":[")
        tail == SubSeq(schema_str, array_start, Len(schema_str))
        array_end == find(tail, "]")
    IN  IF start_idx = 0 \/ array_end = 0 THEN <<>>
        ELSE clean_items(split(SubSeq(tail, 1, array_end - 1), ","), 1)

\* lines 325-345: split `content` on the commas outside angle brackets
RECURSIVE split_params(_, _, _, _)
split_params(content, i, bracket_count, current_param) ==
    IF i > Len(content)
    THEN IF current_param # "" THEN <<trim(current_param)>> ELSE <<>>
    ELSE LET c == Ch(content, i)
         IN  IF c = "<"
             THEN split_params(content, i + 1, bracket_count + 1, current_param \o c)
             ELSE IF c = ">"
             THEN split_params(content, i + 1, bracket_count - 1, current_param \o c)
             ELSE IF c = "," /\ bracket_count = 0
             THEN (IF current_param # "" THEN <<trim(current_param)>> ELSE <<>>)
                  \o split_params(content, i + 1, bracket_count,
                                  IF current_param # "" THEN "" ELSE current_param)
             ELSE split_params(content, i + 1, bracket_count, current_param \o c)

\* lines 320-349: the generic arguments written in a type string
child_generic_params(type_str) ==
    LET start_idx == find(type_str, "<")
        end_idx == rfind(type_str, ">")
    IN  IF start_idx = 0 \/ end_idx = 0 THEN <<>>
        ELSE split_params(SubSeq(type_str, start_idx + 1, end_idx - 1), 1, 0, "")

\* the key of one entry of a "generics" object: the text between its first two quotes
entry_key(entry) ==
    LET e == trim(entry)
        ks == find(e, "\"")
        after_k == SubSeq(e, ks + 1, Len(e))
        ke == find(after_k, "\"")
    IN  IF e = "" \/ ks = 0 \/ ke = 0 \/ ke = 1 THEN <<>>
        ELSE <<SubSeq(after_k, 1, ke - 1)>>

\* lines 438-452: the offset in after_brace of the '}' that closes the object
RECURSIVE brace_end_of(_, _, _)
brace_end_of(after_brace, i, depth) ==
    IF i > Len(after_brace) THEN 0
    ELSE IF Ch(after_brace, i) = "{" THEN brace_end_of(after_brace, i + 1, depth + 1)
    ELSE IF Ch(after_brace, i) = "}"
         THEN IF depth = 1 THEN i - 1 ELSE brace_end_of(after_brace, i + 1, depth - 1)
    ELSE brace_end_of(after_brace, i + 1, depth)

\* lines 455-491: the keys of the entries, split on the commas outside braces
RECURSIVE entry_keys(_, _, _, _)
entry_keys(gen_content, i, entry_depth, entry) ==
    IF i > Len(gen_content) THEN entry_key(entry)
    ELSE LET ch == Ch(gen_content, i)
         IN  IF ch = "{" THEN entry_keys(gen_content, i + 1, entry_depth + 1, entry \o ch)
             ELSE IF ch = "}"
             THEN entry_keys(gen_content, i + 1, entry_depth - 1, entry \o ch)
             ELSE IF ch = "," /\ entry_depth = 0
             THEN entry_key(entry) \o entry_keys(gen_content, i + 1, entry_depth, "")
             ELSE entry_keys(gen_content, i + 1, entry_depth, entry \o ch)

\* lines 432-495: the parameter names read off the last "generics" object
param_names_of(base_schema_str) ==
    LET gen_start == rfind(base_schema_str, "\"generics\"")
        tail == SubSeq(base_schema_str, gen_start, Len(base_schema_str))
        brace_start == find(tail, "{")
        after_brace == SubSeq(tail, brace_start + 1, Len(tail))
        brace_end == brace_end_of(after_brace, 1, 1)
    IN  IF gen_start = 0 \/ brace_start = 0 THEN <<>>
        ELSE entry_keys(SubSeq(after_brace, 1, brace_end), 1, 0, "")


\* the identifier of a type string: its last path segment, without arguments
RECURSIVE last_segment(_)
last_segment(path) ==
    LET k == find(path, "::")
    IN  IF k = 0 THEN path ELSE last_segment(SubSeq(path, k + 2, Len(path)))

base_ident(type_str) ==
    LET lt == find(type_str, "<")
    IN  last_segment(IF lt = 0 THEN type_str ELSE SubSeq(type_str, 1, lt - 1))

\* TS::output_path().is_some(): the derive emits Some(..) for every derived type
output_path_is_some(type_str) ==
    base_ident(type_str) \notin Primitives \cup Containers

\* TS::schema_var_name(): "PointSchema" for Point<Gender>
schema_var_name(type_str) == base_ident(type_str) \o "Schema"

\* TS::schema(false) of a type that has no Schema record
builtin_schema(type_str) == "{}"

\* lines 295-301: the name of the variable that holds a dependency's value
dep_var(ty) ==
    to_lowercase(
        trim_start_matches(
            trim_end_matches(
                replace(replace(replace_non_alnum(ty), "__", "_"), "__", "_"),
                "_"),
            "_"))

\* a type parameter stands, at run time, for the type it is bound to
resolve(t, binding) == IF t \in DOMAIN binding THEN binding[t] ELSE t

\* `if output_path().is_some() { schema_var_name() } else { schema(false) }`
type_value(t, binding) ==
    LET r == resolve(t, binding)
    IN  IF output_path_is_some(r) THEN schema_var_name(r) ELSE builtin_schema(r)

is_self(full_ty, o_name) == replace(full_ty, " ", "") = o_name

\* some order of the keys of a table
RECURSIVE some_order(_)
some_order(keys) ==
    IF keys = {} THEN <<>>
    ELSE LET k == CHOOSE x \in keys : TRUE IN <<k>> \o some_order(keys \ {k})

\* lines 430-503: the object built from the base schema's parameter names
\* and the variables of the concrete arguments
instantiation(type_str, base_schema_str, concrete_vars) ==
    IF base_schema_str = StackOverflow THEN StackOverflow
    ELSE "{ ..." \o schema_var_name(type_str) \o ", \"generics\": { "
         \o join([i \in 1..Min({Len(param_names_of(base_schema_str)), Len(concrete_vars)}) |->
                     "\"" \o param_names_of(base_schema_str)[i] \o "\": " \o concrete_vars[i]],
                 ", ")
         \o " } }"

RECURSIVE schema_routine(_, _, _, _, _, _, _)
RECURSIVE dep_value(_, _, _, _, _)
RECURSIVE def_dependencies(_, _, _, _, _, _, _)

\* lines 411-429: `<#_ty as TS>::schema(false)` of the instantiated type
\* (root: the schema under derivation; active: the calls not yet returned)
base_schema(decl, inst, root, active) ==
    IF inst \in active THEN StackOverflow
    ELSE schema_routine(decl, to_string(decl, some_order(DOMAIN decl.def)),
                        some_order(DOMAIN decl.def), FALSE,
                        [i \in 1..Len(decl.generics) |-> inst[2][i]],
                        root, active \cup {inst})

\* lines 411-503: the value of a dependency that is a generic instantiation
dep_value(type_str, params, binding, root, active) ==
    instantiation(type_str,
                  base_schema(IF base_ident(type_str) = root.name THEN root
                              ELSE Crate[base_ident(type_str)],
                              <<base_ident(type_str),
                                [i \in 1..Len(params) |-> resolve(params[i], binding)]>>,
                              root, active),
                  [i \in 1..Len(params) |-> type_value(params[i], binding)])

\* one dependency's `let <var>: String = ...`
bind_dependency(s, dord, i, binding, root, active, env, value) ==
    IF value = StackOverflow THEN [returns |-> FALSE, vars |-> env]
    ELSE def_dependencies(s, dord, i + 1, binding, root, active,
                          insert(env, dep_var(dord[i]), value))

\* lines 312-507: the `let <var>: String = ...` of each dependency, in order;
\* returns is FALSE when a dependency's schema routine never returns
def_dependencies(s, dord, i, binding, root, active, env) ==
    IF i > Len(dord) THEN [returns |-> TRUE, vars |-> env]
    ELSE IF is_self(s.def[dord[i]], s.name)
    THEN def_dependencies(s, dord, i + 1, binding, root, active, env)
    ELSE bind_dependency(s, dord, i, binding, root, active, env,
             IF child_generic_params(replace(s.def[dord[i]], " ", "")) = <<>>
             THEN type_value(replace(s.def[dord[i]], " ", ""), binding)
             ELSE dep_value(replace(s.def[dord[i]], " ", ""),
                            child_generic_params(replace(s.def[dord[i]], " ", "")),
                            binding, root, active))

\* lines 509-520: the `let <var>: String = ...` of each type parameter
RECURSIVE def_generics(_, _, _, _)
def_generics(gens, i, binding, env) ==
    IF i > Len(gens) THEN env
    ELSE def_generics(gens, i + 1, binding,
                      insert(env, to_lowercase(gens[i]), type_value(gens[i], binding)))

\* lines 521-538: the replacements of the dependencies' placeholders
RECURSIVE repl_dependencies(_, _, _, _, _)
repl_dependencies(s, dord, i, env, text) ==
    IF i > Len(dord) THEN text
    ELSE LET full == replace(s.def[dord[i]], " ", "")
             fmt == "&&&" \o to_uppercase(dep_var(dord[i])) \o "&&&"
         IN  repl_dependencies(s, dord, i + 1, env,
                 IF is_self(s.def[dord[i]], s.name)
                 THEN replace(replace(text, "#/definitions/" \o full, "#"), fmt, "{}")
                 ELSE replace(text, fmt, env[dep_var(dord[i])]))

\* the type parameters' placeholders left as rendered
skip_generics(gens, i, env, text) == text

\* lines 539-547: the replacements of the type parameters' placeholders
RECURSIVE repl_generics(_, _, _, _)
repl_generics(gens, i, env, text) ==
    IF i > Len(gens) THEN text
    ELSE repl_generics(gens, i + 1, env,
                       replace(text, "&&&&" \o gens[i] \o "&&&&", env[to_lowercase(gens[i])]))

\* lines 548-562: the body of the routine once its variables are bound
body(s, document, dord, export, env1) ==
    IF ~env1.returns THEN StackOverflow
    ELSE repl_generics(s.generics, 1, env1.vars,
             repl_dependencies(s, dord, 1, env1.vars,
                 IF export THEN "const " \o s.name \o "Schema = " \o document
                 ELSE document))

\* the type each type parameter stands for, by name
binding_map(gens, binding) ==
    [g \in Range(gens) |-> binding[CHOOSE i \in 1..Len(gens) : gens[i] = g]]

\* the variables of the dependencies, then those of the type parameters
bindings(s, binding, env1) ==
    [returns |-> env1.returns,
     vars |-> def_generics(s.generics, 1, binding_map(s.generics, binding), env1.vars)]

\* lines 549-561: fn schema(export: bool) -> String, for the schema s whose
\* rendering `document` was fixed at derivation; dord: the order of `dependencies`;
\* binding: the type each type parameter stands for in this call
schema_routine(s, document, dord, export, binding, root, active) ==
    body(s, document, dord, export,
         bindings(s, binding,
                  def_dependencies(s, dord, 1, binding_map(s.generics, binding),
                                   root, active, EmptyMap)))

-----------------------------------------------------------------------------
(* The state machine: one derivation builds a schema (pc = "build"), the   *)
(* macro renders it (to_string), and the emitted routine substitutes the   *)
(* placeholders when it is called.                                         *)

SelfSchema ==
    [name |-> name, stype |-> stype, generics |-> generics,
     parent_generics |-> parent_generics, fields |-> fields,
     variants |-> variants, def |-> def]

\* the declarations under derivation
Items == {<<"User", "Struct">>, <<"Point", "Struct">>, <<"Role", "Enum">>}

GenericNames == {"T"}

\* a type parameter may carry the name of a container
BuildGenericNames == {"T", "Option"}

ParentGenericLists == {<<"P">>}

FieldNames == {"value"}

Option(t) == TPath(<<"Option">>, <<t>>)
Vec(t) == TPath(<<"Vec">>, <<t>>)

\* the field types a derivation is given
FieldTypes ==
    { Ident("u64"),
      Ident("T"),
      Ident("Role"),
      Vec(Ident("User")),
      Option(TPath(<<"test", "Point">>, <<Ident("Gender")>>)) }

BuildFieldTypes ==
    FieldTypes \cup
    { Ident("Option"),
      Option(Ident("Role")),
      TPath(<<"std", "string", "String">>, <<>>),
      Vec(TPath(<<"std", "string", "String">>, <<>>)),
      TTuple(<<Ident("u64"), Ident("Role")>>) }

\* the fields of a variant: unit, named, unnamed
VariantFields ==
    { <<>>,
      <<[name |-> "foo", ty |-> Ident("String")], [name |-> "bar", ty |-> Ident("f64")]>>,
      <<[name |-> "", ty |-> Ident("Role")]>> }

BuildVariantFields ==
    VariantFields \cup
    { <<[name |-> "", ty |-> Vec(Ident("User"))], [name |-> "", ty |-> Ident("T")]>> }

VariantNames == <<"A", "B", "C", "D">>

Discriminants == {NoDiscriminant, LitInt("5")}

BuildDiscriminants == Discriminants \cup {OtherExpr}

\* the types a type parameter is bound to where the routine is called
BoundTypes == {"Gender", "u64"}

\* the types in scope of the emitted code
KnownTypes == {"User", "Point", "Gender", "Role", "UserRole", "Point_Gender"}

Orders(keys) ==
    {o \in [1..Cardinality(keys) -> keys] : \A i, j \in DOMAIN o : o[i] = o[j] => i = j}

\* the identifiers written in the types of the fields and variant fields
used_names(s) ==
    UNION ({Range(extract_type_names(s.fields[i].sref.s)) : i \in DOMAIN s.fields}
           \cup {Range(extract_type_names(f.sref.s)) :
                     f \in UNION {Range(s.variants[i].fields) : i \in DOMAIN s.variants}})

\* the emitted routine compiles: every type parameter is used, every
\* dependency names a type in scope, and an instantiation supplies as many
\* arguments as its declaration has parameters
Compiles(s) ==
    /\ Range(s.generics) \subseteq used_names(s)
    /\ \A k \in DOMAIN s.def :
        LET type_str == s.def[k]
            params == child_generic_params(type_str)
            base == base_ident(type_str)
        IN  /\ base \in KnownTypes \cup Range(s.generics)
            /\ params # <<>> =>
                   /\ base \in KnownTypes
                   /\ Len(params) = (IF base = s.name THEN Len(s.generics)
                                     ELSE IF base \in DOMAIN Crate
                                     THEN Len(Crate[base].generics) ELSE 0)
                   /\ \A i \in 1..Len(params) :
                          params[i] \in KnownTypes \cup Primitives \cup Range(s.generics)

\* no call of the routine yet
NoCall == [export |-> FALSE, binding |-> <<>>]

Init ==
    /\ \E item \in Items : name = item[1] /\ stype = item[2]
    /\ generics = <<>>
    /\ parent_generics = <<>>
    /\ fields = <<>>
    /\ variants = <<>>
    /\ def = EmptyMap
    /\ pc = "build"
    /\ order = <<>>
    /\ doc = ""
    /\ call = NoCall
    /\ schem = ""

add_generic(ident) ==
    /\ pc = "build"
    /\ generics' = with_generic(SelfSchema, ident).generics
    /\ UNCHANGED <<name, stype, parent_generics, fields, variants, def, pc, order, doc, call, schem>>

add_parent_generics(pgs) ==
    /\ pc = "build"
    /\ parent_generics' = with_parent_generics(SelfSchema, pgs).parent_generics
    /\ UNCHANGED <<name, stype, generics, fields, variants, def, pc, order, doc, call, schem>>

add_field(n, ty) ==
    /\ pc = "build"
    /\ stype = "Struct"
    /\ Len(fields) < MaxFields
    /\ \E s2 \in {with_field(SelfSchema, n, ty)} :
           fields' = s2.fields /\ def' = s2.def
    /\ UNCHANGED <<name, stype, generics, parent_generics, variants, pc, order, doc, call, schem>>

add_variant(n, vfields, discriminant) ==
    /\ pc = "build"
    /\ stype = "Enum"
    /\ Len(variants) < MaxVariants
    /\ IF unwrap_panics(discriminant)
       THEN pc' = "panicked" /\ UNCHANGED <<variants, def>>
       ELSE /\ \E s2 \in {with_variant(SelfSchema, n, vfields, discriminant)} :
                   variants' = s2.variants /\ def' = s2.def
            /\ pc' = pc
    /\ UNCHANGED <<name, stype, generics, parent_generics, fields, order, doc, call, schem>>

\* types::newtype, lines 13-39: the schema of a tuple struct of one field;
\* include_in_def is the flag computed at lines 29-37 and handed to
\* Schema::add_field, whose body (schem.rs 254-266) has no use for it
newtype(inner_ty, include_in_def) ==
    /\ pc = "build"
    /\ stype = "Struct"
    /\ SelfSchema = new(name, "Struct")
    /\ \E s2 \in {with_field(SelfSchema, "0", inner_ty)} :
           fields' = s2.fields /\ def' = s2.def
    /\ pc' = IF include_in_def THEN "newtype_named" ELSE "newtype_inlined"
    /\ UNCHANGED <<name, stype, generics, parent_generics, variants, order, doc, call, schem>>

\* generate_schem_fn, lines 286-287: `schema.def.clone()` and
\* `schema.to_string()`; ord is the order in which the table is iterated
Render(ord) ==
    /\ pc \in {"build", "newtype_named", "newtype_inlined"}
    /\ order' = ord
    /\ \E d \in renderings(SelfSchema, ord) :
           /\ doc' = d
           /\ pc' = IF d = Panic THEN "panicked" ELSE "rendered"
    /\ schem' = ""
    /\ UNCHANGED <<schemaVars, call>>

\* a call of the emitted fn schema(export); the clone of the table is
\* iterated as the table was
Schema(export, binding) ==
    /\ pc = "rendered"
    /\ Compiles(SelfSchema)
    /\ call' = [export |-> export, binding |-> binding]
    /\ \E r \in {schema_routine(SelfSchema, doc, order, export, binding, SelfSchema,
                                {<<name, binding>>})} :
           IF r = StackOverflow
           THEN pc' = "stack_overflow" /\ schem' = schem
           ELSE pc' = "returned" /\ schem' = r
    /\ UNCHANGED <<schemaVars, order, doc>>

Next ==
    \/ \E ident \in GenericNames : add_generic(ident)
    \/ \E pgs \in ParentGenericLists : add_parent_generics(pgs)
    \/ \E n \in FieldNames, ty \in FieldTypes : add_field(n, ty)
    \/ \E vfields \in VariantFields, d \in Discriminants :
           add_variant(VariantNames[Len(variants) + 1], vfields, d)
    \/ \E ord \in Orders(DOMAIN def) : Render(ord)
    \/ \E export \in BOOLEAN, binding \in [1..Len(generics) -> BoundTypes] :
           Schema(export, binding)

Spec == Init /\ [][Next]_vars

\* the derivations alone, over more declarations
NextBuild ==
    \/ \E ident \in BuildGenericNames : add_generic(ident)
    \/ \E pgs \in ParentGenericLists : add_parent_generics(pgs)
    \/ \E n \in FieldNames, ty \in BuildFieldTypes : add_field(n, ty)
    \/ \E vfields \in BuildVariantFields, d \in BuildDiscriminants :
           add_variant(VariantNames[Len(variants) + 1], vfields, d)

SpecBuild == Init /\ [][NextBuild]_vars

\* declarations that name themselves next to a type whose name begins with theirs
\* and declarations with two types whose names differ in punctuation only
SelfFieldTypes ==
    { Vec(Ident("User")),
      Ident("UserRole"),
      TPath(<<"test", "Point">>, <<Ident("Gender")>>),
      Ident("Point_Gender") }

NextSelf ==
    \/ \E n \in FieldNames, ty \in SelfFieldTypes : add_field(n, ty)
    \/ \E ord \in Orders(DOMAIN def) : Render(ord)
    \/ \E export \in BOOLEAN, binding \in [1..Len(generics) -> BoundTypes] :
           Schema(export, binding)

SpecSelf == Init /\ [][NextSelf]_vars

\* declarations at the edges: a name that is both a local and an inherited
\* type parameter, associated types, a reference type, discriminants at the
\* ends of the i32 range
CornerParentLists == {<<"P">>, <<"T", "P">>}

CornerFieldTypes ==
    { Ident("T"),
      Ident("Role"),
      Vec(Ident("P")),
      TPath(<<"T", "Item">>, <<>>),
      TReference(Ident("Role")),
      TSlice(Ident("Role")) }

CornerDiscriminants ==
    {NoDiscriminant, OtherExpr, LitInt("2147483647"), LitInt("2147483648")}

\* a unit variant and a tuple variant of two fields
CornerVariantFields ==
    { <<>>,
      <<[name |-> "", ty |-> Ident("Role")], [name |-> "", ty |-> Ident("T")]>>,
      <<[name |-> "point",
         ty |-> Option(TPath(<<"test", "Point">>, <<Ident("Gender")>>))]>> }

\* the variants drawn: a unit variant with each discriminant, and the variants
\* that carry fields without one
CornerVariants ==
    { v \in CornerVariantFields \X CornerDiscriminants :
          v[1] = <<>> \/ v[2] = NoDiscriminant }

NextCorner ==
    \/ \E ident \in GenericNames : add_generic(ident)
    \/ \E pgs \in CornerParentLists : add_parent_generics(pgs)
    \/ \E n \in FieldNames, ty \in CornerFieldTypes : add_field(n, ty)
    \/ \E v \in CornerVariants :
           add_variant(VariantNames[Len(variants) + 1], v[1], v[2])
    \/ \E inner_ty \in CornerFieldTypes, include_in_def \in BOOLEAN :
           newtype(inner_ty, include_in_def)
    \/ \E ord \in Orders(DOMAIN def) : Render(ord)

SpecCorner == Init /\ [][NextCorner]_vars

\* replace_types on its own, over reference strings that no type prints:
\* every string of at most MaxTokens of these tokens
MaxTokens == 3

RefTokens == {"Foo", "User", "<", ">"}

RECURSIVE concat(_, _)
concat(strs, i) == IF i > Len(strs) THEN "" ELSE strs[i] \o concat(strs, i + 1)

RefStrings == {concat(ts, 1) : ts \in UNION {[1..n -> RefTokens] : n \in 1..MaxTokens}}

InitRewrite ==
    /\ name = "User"
    /\ stype = "Struct"
    /\ generics = <<>>
    /\ parent_generics = <<>>
    /\ \E sref \in RefStrings :
           fields = <<[name |-> "value", sref |-> [tag |-> "Refs", s |-> sref]]>>
    /\ variants = <<>>
    /\ def \in {EmptyMap, insert(EmptyMap, "User", "User")}
    /\ pc = "reference"
    /\ order = <<>>
    /\ doc = ""
    /\ call = NoCall
    /\ schem = ""

\* one call replace_types(sref, defs, generics, parent_generics); its result in schem
ReplaceTypes ==
    /\ pc = "reference"
    /\ \E r \in {replace_types(fields[1].sref.s, DOMAIN def, generics, parent_generics)} :
           IF r = Panic
           THEN pc' = "panicked" /\ schem' = schem
           ELSE pc' = "replaced" /\ schem' = r
    /\ UNCHANGED <<schemaVars, order, doc, call>>

SpecRewrite == InitRewrite /\ [][ReplaceTypes]_vars

-----------------------------------------------------------------------------
(* Properties.                                                             *)

\* the root has a field whose type is a list of the root itself
SelfInList == \E i \in DOMAIN fields : fields[i].sref.s = "Vec<" \o name \o ">"

\* C1: for a root N with a field Vec<N>, the string the routine returns has
\* "#" as the value of key N of its definitions section, has every
\* `#/definitions/N` rewritten to `#`, and holds no placeholder token.
C1_SelfPointer ==
    (pc = "returned" /\ SelfInList) =>
        /\ contains(schem, "    \"" \o name \o "\": \"#\",\n")
        /\ ~contains(schem, "#/definitions/" \o name)
        /\ contains(schem, "\"type\": \"Vec<#>\"")
        /\ ~contains(schem, "&&&")

\* C2: every call of the schema routine returns: the routine never calls
\* itself, directly or through a dependency's routine, without bound.
C2_Terminates == pc # "stack_overflow"

\* C3: replace_types rewrites inside angle brackets, and rewriting a
\* rewritten reference again changes nothing.
C3_Idempotent ==
    /\ replace_types("Option<Vec<User>>", {"User"}, <<>>, <<>>)
           = "Option<Vec<#/definitions/User>>"
    /\ \A i \in DOMAIN fields :
           replace_types(
               replace_types(fields[i].sref.s, DOMAIN def, generics, parent_generics),
               DOMAIN def, generics, parent_generics)
           = replace_types(fields[i].sref.s, DOMAIN def, generics, parent_generics)

\* C4: the rendered document is the same string whatever the order in which
\* the definition table yields its entries.
C4_Deterministic ==
    pc = "rendered" => \A o \in Orders(DOMAIN def) : to_string(SelfSchema, o) = doc

\* C5: no placeholder token, `&&&KEY&&&` or `&&&&NAME&&&&`, is left in the
\* string the routine returns.
C5_FullySubstituted == pc = "returned" => ~contains(schem, "&&&")

\* the value the routine binds to a type parameter that stands for type t
SuppliedFor(t) == IF t \in KnownTypes THEN t \o "Schema" ELSE "{}"

\* a field of type T is added while T is a local generic
AddsGenericField ==
    /\ pc = "build" /\ pc' = "build"
    /\ "T" \in Range(generics)
    /\ Len(fields') = Len(fields) + 1
    /\ fields'[Len(fields')].sref.s = "T"

\* a struct whose fields of type T were all added with T a local generic
GenericPoint ==
    /\ stype = "Struct"
    /\ generics = <<"T">>
    /\ "T" \notin DOMAIN def
    /\ \E i \in DOMAIN fields : fields[i].sref.s = "T"

C6_Document ==
    /\ (pc \in {"rendered", "returned"} /\ GenericPoint) =>
           /\ ~contains(doc, "\"T\": &&&T&&&")
           /\ ~contains(doc, "#/definitions/T")
           /\ contains(doc, "      \"type\": \"T\"\n")
           /\ contains(doc, "    \"T\": &&&&T&&&&,\n")
    /\ (pc = "returned" /\ GenericPoint) =>
           /\ ~contains(schem, "&&&&T&&&&")
           /\ ~contains(schem, "#/definitions/T")
           /\ contains(schem, "      \"type\": \"T\"\n")
           /\ contains(schem, "    \"T\": " \o SuppliedFor(call.binding[1]) \o ",\n")

RECURSIVE DeclaredDiscriminant(_, _)
DeclaredDiscriminant(vs, i) ==
    IF vs[i].discriminant.some THEN vs[i].discriminant.val
    ELSE IF i = 1 THEN 0 ELSE DeclaredDiscriminant(vs, i - 1) + 1

\* the opening of the entry of a variant with discriminant n
VariantEntry(n, d) ==
    "    {\n      \"name\": \"" \o n \o "\",\n      \"discriminant\": " \o ToString(d) \o ",\n"

\* enum E { A, B { foo: String, bar: f64 }, C(Role) }, B with discriminant b
ExampleEnum(b) ==
    with_variant(
        with_variant(
            with_variant(new("E", "Enum"), "A", <<>>, NoDiscriminant),
            "B", <<[name |-> "foo", ty |-> Ident("String")],
                   [name |-> "bar", ty |-> Ident("f64")]>>, b),
        "C", <<[name |-> "", ty |-> Ident("Role")]>>, NoDiscriminant)

\* the discriminants the document gives A, B and C, in this order
Renders(document, a, b, c) ==
    /\ contains(document, VariantEntry("A", a))
    /\ contains(document, VariantEntry("B", b))
    /\ contains(document, VariantEntry("C", c))
    /\ find(document, VariantEntry("A", a)) < find(document, VariantEntry("B", b))
    /\ find(document, VariantEntry("B", b)) < find(document, VariantEntry("C", c))

\* C7: a rendered enum gives each variant, in declaration order, its explicit
\* discriminant or else the previous variant's discriminant plus 1, from 0:
\* A, B, C render 0, 1, 2, and 0, 5, 6 when B = 5.
C7_Discriminants ==
    (pc = "rendered" /\ stype = "Enum") =>
        /\ \A i \in DOMAIN variants :
               contains(doc, VariantEntry(variants[i].name,
                                          DeclaredDiscriminant(variants, i)))
        /\ \A i \in DOMAIN variants : \A j \in DOMAIN variants :
               i < j => find(doc, "\"name\": \"" \o variants[i].name \o "\",\n      \"disc")
                        < find(doc, "\"name\": \"" \o variants[j].name \o "\",\n      \"disc")
        /\ Renders(to_string(ExampleEnum(NoDiscriminant), <<>>), 0, 1, 2)
        /\ Renders(to_string(ExampleEnum(LitInt("5")), <<>>), 0, 5, 6)

C7_Witness ==
    /\ pc = "rendered" /\ stype = "Enum" /\ Len(variants) = 2
    /\ variants[1].discriminant = [some |-> TRUE, val |-> 5]
    /\ ~variants[2].discriminant.some
    /\ contains(doc, VariantEntry("B", 6))

\* C8: the primitives are the seventeen names of is_primitive_type, a
\* composite such as Option<usize> is none, and no primitive is a key of the
\* definition table, however the field types were written.
C8_NoPrimitiveKey ==
    /\ \A p \in {"usize", "isize", "i8", "i16", "i32", "i64", "u8", "u16", "u32",
                 "u64", "f32", "f64", "bool", "char", "String", "Uuid",
                 "NaiveDateTime"} : is_primitive_type(p)
    /\ ~is_primitive_type("Option<usize>")
    /\ DOMAIN def \cap Primitives = {}

\* C9: when a container name is a local generic, a field type that uses the
\* name, with or without arguments, registers nothing.
C9_GenericBeforeContainer ==
    \A c \in Containers \cap Range(generics) :
        \A ty \in {Ident(c), TPath(<<c>>, <<Ident("Role")>>)} :
            process_type(def, generics, parent_generics, ty) = def

\* C10: registering a type a second time, by process_type or by a second
\* field of the same type, leaves the definition table as it was after the
\* first time.
C10_Idempotent ==
    \A ty \in BuildFieldTypes :
        LET once == process_type(def, generics, parent_generics, ty)
            first == with_field(SelfSchema, "value", ty)
        IN  /\ process_type(once, generics, parent_generics, ty) = once
            /\ with_field(first, "value", ty).def = first.def

C10_Witness ==
    /\ Len(fields) = 2 /\ fields[1] = fields[2]
    /\ fields[1].sref.s = "Option<Point<Gender>>"
    /\ DOMAIN def = {"Point<Gender>", "Gender"}

\* the type parameters in scope of the schema, local and inherited
AllGenerics == Range(generics) \cup Range(parent_generics)

\* C11: in a rendered schema, a field whose reference is a type parameter
\* (local or inherited), or a list of one, is rewritten to itself, also when
\* the parameter's name is a key of the definition table.
C11_GenericsKept ==
    pc = "rendered" =>
        \A i \in DOMAIN fields : \A g \in AllGenerics :
            fields[i].sref.s \in {g, "Vec<" \o g \o ">"} =>
                replace_types(fields[i].sref.s, DOMAIN def, generics, parent_generics)
                    = fields[i].sref.s

\* the list without the name g
without(list, g) == SelectSeq(list, LAMBDA x : x # g)

\* the field types the schema registers nothing for when g is a type parameter
GenericShapes(g) == {Ident(g), Vec(Ident(g)), TPath(<<g, "Item">>, <<>>)}

\* C12: for every inherited type parameter g and each of the types g, Vec<g>
\* and g::Item: if process_type registers nothing with g a local parameter,
\* it registers nothing with g an inherited one.
C12_ParentLikeLocal ==
    \A g \in Range(parent_generics) \ Range(generics) : \A ty \in GenericShapes(g) :
        process_type(def, Append(generics, g), without(parent_generics, g), ty) = def
            => process_type(def, generics, parent_generics, ty) = def

NoDuplicates(list) == \A i, j \in DOMAIN list : list[i] = list[j] => i = j

\* C13: no name is both a local and an inherited type parameter, no name is
\* twice in its list, and a rendered document has at most one entry per name
\* in its "generics" section.
C13_DistinctGenerics ==
    /\ Range(generics) \cap Range(parent_generics) = {}
    /\ NoDuplicates(generics)
    /\ NoDuplicates(parent_generics)
    /\ pc = "rendered" =>
           \A g \in AllGenerics : CountMatches(doc, generic_entry(g)) <= 1

\* the schema after one more field `item: T::Item`
WithAssociatedItem == with_field(SelfSchema, "item", TPath(<<"T", "Item">>, <<>>))

\* C14: with T a local type parameter, a field of type T::Item registers
\* nothing and its entry carries the type T::Item, whatever the table holds.
C14_AssociatedVerbatim ==
    (pc = "build" /\ stype = "Struct" /\ "T" \in Range(generics)) =>
        /\ WithAssociatedItem.def = def
        /\ final_type_of(WithAssociatedItem, Last(WithAssociatedItem.fields)) = "T::Item"

\* C15: the schema of a newtype whose inner type is inlined or overridden
\* (include_in_def = false) has its one field and an empty definition table.
C15_FlagRespected ==
    pc = "newtype_inlined" => Len(fields) = 1 /\ def = EmptyMap

\* field types that are neither a path nor an array
UnsupportedShapes == {TTuple(<<Ident("u64"), Ident("Role")>>), TReference(Ident("Role"))}

\* C16: adding a field of a tuple or reference type to a struct leaves the
\* definition table unchanged, and the field's entry carries the text of the
\* type with nothing rewritten (and rendering it does not panic).
C16_LiteralShape ==
    (pc = "build" /\ stype = "Struct") =>
        \A ty \in UnsupportedShapes :
            LET s2 == with_field(SelfSchema, "value", ty)
            IN  /\ s2.def = def
                /\ final_type_of(s2, Last(s2.fields)) = replace(to_token_string(ty), " ", "")

\* the angle brackets of s do not pair up, from index i at nesting depth
RECURSIVE Unbalanced(_, _, _)
Unbalanced(s, i, depth) ==
    IF i > Len(s) THEN depth # 0
    ELSE IF Ch(s, i) = "<" THEN Unbalanced(s, i + 1, depth + 1)
    ELSE IF Ch(s, i) = ">" THEN depth = 0 \/ Unbalanced(s, i + 1, depth - 1)
    ELSE Unbalanced(s, i + 1, depth)

Malformed(s) == Unbalanced(s, 1, 0) \/ contains(s, "<>")

\* C17: replace_types returns for every reference string with unpaired angle
\* brackets or an empty segment, and what it returns is, apart from the
\* definitions prefixes it puts before keys, the string it was given.
C17_Recovers ==
    (pc \in {"replaced", "panicked"} /\ Malformed(fields[1].sref.s)) =>
        /\ pc = "replaced"
        /\ replace(schem, "#/definitions/", "") = fields[1].sref.s

\* the placeholders that to_string has printed for the schema
EmittedPlaceholders ==
    {"&&&&" \o g \o "&&&&" : g \in AllGenerics}
    \cup {"&&&" \o def_name_of(k) \o "&&&" : k \in DOMAIN def}

\* C18: the routine returns no text in which a placeholder that the renderer
\* printed is still present.
C18_FailsLoudly ==
    pc = "returned" => \A p \in EmittedPlaceholders : ~contains(schem, p)

\* C19: neither add_variant nor the rendering of an enum panics, whatever
\* the discriminant expressions of the variants are.
C19_DiscriminantAccepted == ~(stype = "Enum" /\ pc = "panicked")

\* C20: the names that parse_parent_generics_from_schema reads off a rendered
\* document are the keys of the document's "generics" section, in order.
C20_ExtractionInverts ==
    pc = "rendered" => parse_parent_generics_from_schema(doc) = generics \o parent_generics

\* Option<test::Point<Gender>>: a container around Inner<Leaf>
NestedType == Option(TPath(<<"test", "Point">>, <<Ident("Gender")>>))

\* containers within containers
DeepTypes ==
    { Vec(Option(Ident("Role"))),
      Option(TPath(<<"HashMap">>, <<Ident("String"), Vec(Ident("User"))>>)),
      TPath(<<"Result">>, <<Vec(Vec(Ident("Role"))), Option(Ident("u64"))>>),
      TPath(<<"Wrapper">>, <<Option(Vec(Ident("Role")))>>) }

\* C21: a schema with a field Option<test::Point<Gender>> has the keys
\* Point<Gender> and Gender; no key of the table is the name of a container,
\* and registering containers nested in containers adds no such key.
C21_NestedRegistration ==
    /\ \A i \in DOMAIN fields :
           fields[i].sref = sref_of(NestedType) =>
               {"Point<Gender>", "Gender"} \subseteq DOMAIN def
    /\ DOMAIN def \cap Containers = {}
    /\ \A ty \in DeepTypes :
           LET d2 == process_type(def, generics, parent_generics, ty)
           IN  /\ DOMAIN d2 \cap Containers = {}
               /\ "Role" \in DOMAIN d2 \/ "User" \in DOMAIN d2

C21_Witness ==
    /\ Len(fields) = 2
    /\ fields[2].sref = sref_of(NestedType)
    /\ DOMAIN def = {"Role", "Point<Gender>", "Gender"}

\* [Role; 4] and [Role]
ArrayShapes == {TArray(Ident("Role"), "4"), TSlice(Ident("Role"))}

\* C22: the descriptor recorded for a field of type [X; n] or [X] is an
\* items reference to the element type X.
C22_ElementReference ==
    \A i \in DOMAIN fields : \A ty \in ArrayShapes :
        fields[i].sref = sref_of(ty) =>
            fields[i].sref = [tag |-> "ItemsRefs", s |-> to_token_string(ty.args[1])]

\* the type written without module paths: every path keeps its last segment
RECURSIVE Unqualified(_)
Unqualified(ty) ==
    [kind |-> ty.kind,
     segs |-> IF ty.kind = "Path" THEN <<Last(ty.segs)>> ELSE ty.segs,
     args |-> [i \in 1..Len(ty.args) |-> Unqualified(ty.args[i])]]

StdHashMap ==
    TPath(<<"std", "collections", "HashMap">>, <<Ident("String"), Ident("usize")>>)

FakeHashMap ==
    TPath(<<"my_fake_module2", "my_fake_module", "HashMap">>,
          <<TPath(<<"my_fake_module", "HashMap">>, <<Ident("String"), Ident("usize")>>),
            Ident("usize")>>)

\* path types with module paths at one or several levels
QualifiedTypes ==
    {ty \in BuildFieldTypes : ty.kind = "Path"}
    \cup { StdHashMap, FakeHashMap, Vec(StdHashMap), Option(Vec(FakeHashMap)),
           TPath(<<"a", "Map">>, <<TPath(<<"b", "K">>, <<>>), TPath(<<"c", "d", "V">>, <<>>)>>) }

FieldEntry(n, t) ==
    "    {\n      \"name\": \"" \o n \o "\",\n      \"type\": \"" \o t \o "\"\n    },\n"

VariantFieldEntry(n, t) ==
    "        {\n          \"name\": \"" \o n \o "\",\n          \"type\": \"" \o t
    \o "\"\n        },\n"

\* the entries of the recorded fields, one after the other
RECURSIVE FieldEntries(_)
FieldEntries(i) ==
    IF i > Len(fields) THEN ""
    ELSE FieldEntry(fields[i].name, final_type_of(SelfSchema, fields[i]))
         \o FieldEntries(i + 1)

\* the entries of the fields of a variant, unnamed ones under their position
RECURSIVE VariantFieldEntries(_, _)
VariantFieldEntries(vfields, i) ==
    IF i > Len(vfields) THEN ""
    ELSE VariantFieldEntry(IF vfields[i].name = "" THEN ToString(i - 1)
                           ELSE vfields[i].name,
                           final_type_of(SelfSchema, vfields[i]))
         \o VariantFieldEntries(vfields, i + 1)

\* where the entry of variant i begins in the document
VariantAt(i) == find(doc, "    {\n      \"name\": \"" \o variants[i].name \o "\",\n")

C24_Document ==
    pc = "rendered" =>
        /\ stype = "Struct" =>
               contains(doc, "\"fields\": [\n" \o FieldEntries(1) \o "  ],\n")
        /\ stype = "Enum" =>
               /\ \A i \in DOMAIN variants :
                      /\ VariantAt(i) # 0
                      /\ i > 1 => VariantAt(i - 1) < VariantAt(i)
                      /\ contains(doc, "\"fields\": [\n"
                                       \o VariantFieldEntries(variants[i].fields, 1)
                                       \o "      ],\n")

\* C24: add_field appends one record with the given name to the field list
\* and leaves the records before it as they were; newtype records one field
\* named 0; a rendered document lists the fields, and the variants, in the
\* recorded order, unnamed variant fields under 0, 1, ...
C24_Recorded ==
    /\ [][\A n \in FieldNames, ty \in CornerFieldTypes :
              add_field(n, ty) =>
                  fields' = Append(fields, [name |-> n, sref |-> sref_of(ty)])]_vars
    /\ [][\A ty \in CornerFieldTypes, b \in BOOLEAN :
              newtype(ty, b) => fields' = <<[name |-> "0", sref |-> sref_of(ty)]>>]_vars
    /\ []C24_Document

C24_Witness ==
    /\ pc = "rendered"
    /\ Len(fields) = 2
    /\ fields[1].name = fields[2].name
    /\ fields[1].sref.s = "Role"
    /\ fields[2].sref.s = "T"

\* a text without its spaces and line ends
Compact(text) == replace(replace(text, " ", ""), "\n", "")

\* field types that hold no definition key
PlainTypes ==
    { Ident("usize"), Ident("String"), Vec(Ident("u64")), Option(Vec(Ident("String"))),
      TPath(<<"HashMap">>, <<Ident("String"), Ident("usize")>>) }

RECURSIVE PlainEntries(_, _)
PlainEntries(fs, i) ==
    IF i > Len(fs) THEN ""
    ELSE "{\"name\":\"" \o fs[i].name \o "\",\"type\":\""
         \o replace(fs[i].sref.s, " ", "") \o "\"},"
         \o PlainEntries(fs, i + 1)

\* the document of a struct schema s without definitions and generics
PlainDocument(s) ==
    "{\"type\":\"struct\",\"name\":\"" \o s.name \o "\",\"fields\":["
    \o PlainEntries(s.fields, 1) \o "],\"definitions\":{},\"generics\":{}}"

\* a struct schema built by add_field alone, with an empty definition table
PlainStruct ==
    /\ stype = "Struct"
    /\ def = EmptyMap
    /\ generics = <<>>
    /\ parent_generics = <<>>

ReferencedKeys(field) ==
    {k \in DOMAIN def : contains(final_type_of(SelfSchema, field), "#/definitions/" \o k)}

\* C26: in a rendered document every key that a field type points to has an
\* entry in the definitions section of the struct, or of the variant that
\* holds the field.
C26_ReferentialIntegrity ==
    pc = "rendered" =>
        /\ stype = "Struct" =>
               \A i \in DOMAIN fields : \A k \in ReferencedKeys(fields[i]) :
                   contains(doc, def_entry(k))
        /\ stype = "Enum" =>
               \A v \in DOMAIN variants : \A j \in DOMAIN variants[v].fields :
                   \A k \in ReferencedKeys(variants[v].fields[j]) :
                       contains(variant_defs_part(SelfSchema, variants[v].fields, 1),
                                def_entry(k))

\* C27: when the root is a key of its own table, the text the routine
\* returns has as many references to every other key as the rendered
\* document has.
C27_OnlyRootRewritten ==
    (pc = "returned" /\ name \in DOMAIN def) =>
        \A k \in DOMAIN def \ {name} :
            CountMatches(schem, "#/definitions/" \o k)
                = CountMatches(doc, "#/definitions/" \o k)

\* the keys of the table that are plain type names other than the root
PlainKeys == {k \in DOMAIN def : ~contains(k, "<") /\ k # name}

\* C28: distinct keys have distinct placeholders, none of which occurs in
\* the placeholder of a type parameter, and in the text the routine returns
\* the entry of every plain key carries the schema variable of that key.
C28_OwnValue ==
    pc = "returned" =>
        /\ \A k1, k2 \in DOMAIN def : k1 # k2 => def_name_of(k1) # def_name_of(k2)
        /\ \A k \in DOMAIN def : \A g \in AllGenerics :
               ~contains("&&&&" \o g \o "&&&&", "&&&" \o def_name_of(k) \o "&&&")
        /\ \A k \in PlainKeys :
               contains(schem, "    \"" \o k \o "\": " \o SuppliedFor(k) \o ",\n")

\* C29: whatever the order of the builder calls, no type parameter, local
\* or inherited, is a key of the definition table.
C29_OrderIndependent == \A g \in AllGenerics : g \notin DOMAIN def

\* C30: the schema of the newtype struct W<T>(T) has the field 0 of type T,
\* no key T in its table, and, once rendered, the field type T and an entry
\* for T in the generics section.
C30_NewtypeGeneric ==
    (Len(fields) = 1 /\ fields[1] = [name |-> "0", sref |-> sref_of(Ident("T"))]) =>
        /\ "T" \notin DOMAIN def
        /\ pc = "rendered" =>
               /\ contains(doc, FieldEntry("0", "T"))
               /\ contains(doc, generic_entry("T"))
====
